---- MODULE Spec2Model ----
(***************************************************************************)
(* A model of cbconf: the source registry (registry.py), the resolution    *)
(* pipeline (Settings._build_values), the concrete sources (sources.py)    *)
(* and the delimiter detection of the delimited value parsers              *)
(* (validators.py).                                                        *)
(***************************************************************************)
EXTENDS Integers, Sequences, FiniteSets, TLC

VARIABLES
    sources,    \* registry.__sources__  : source name -> base factory
    registry,   \* registry.__registry__ : environment -> (source name -> binding)
    handles,    \* the Source objects handed out by register / configure
    call,       \* the last registry or pipeline call and how it ended
    args,       \* the inputs of the last source / validator call
    ret,        \* what that call returned or raised
    heap,       \* the list and dict objects the validators' instances refer to
    instances   \* the DelimitedList and Params instances created so far

vars == <<sources, registry, handles, call, args, ret, heap, instances>>

(***************************************************************************)
(* Values.  A Python value held in a mapping is a string, a dict, or some  *)
(* other JSON value (number, list); a dict is a function from keys.        *)
(***************************************************************************)
Str(s) == [t |-> "str", v |-> s]
Map(f) == [t |-> "map", v |-> f]
Json(j) == [t |-> "json", v |-> j]
IsMap(x) == x.t = "map"
EmptyDict == <<>>

\* {**a, **b}: the keys of both, b's value on a key of both.
DictMerge(a, b) == [k \in DOMAIN a \cup DOMAIN b |-> IF k \in DOMAIN b THEN b[k] ELSE a[k]]

\* pydantic.utils.deep_update(mapping, updating): recursive on a key whose
\* value is a dict on both sides, replacement by the updating value otherwise.
RECURSIVE DeepUpdate2(_, _)
DeepUpdate2(mapping, updating) ==
    [k \in DOMAIN mapping \cup DOMAIN updating |->
        IF k \notin DOMAIN updating THEN mapping[k]
        ELSE IF k \in DOMAIN mapping /\ IsMap(mapping[k]) /\ IsMap(updating[k])
             THEN Map(DeepUpdate2(mapping[k].v, updating[k].v))
             ELSE updating[k]]

\* deep_update(ms[1], ms[2], ..., ms[n]): the updating mappings applied in turn.
RECURSIVE DeepUpdateFrom(_, _, _)
DeepUpdateFrom(acc, ms, i) ==
    IF i > Len(ms) THEN acc ELSE DeepUpdateFrom(DeepUpdate2(acc, ms[i]), ms, i + 1)

DeepUpdate(ms) == DeepUpdateFrom(ms[1], ms, 2)

Reversed(s) == [i \in 1..Len(s) |-> s[Len(s) + 1 - i]]

(***************************************************************************)
(* The source registry.                                                    *)
(***************************************************************************)
NoOptions == <<>>
\* A table entry: the factory itself, or functools.partial(factory, **options).
Base(factory) == [factory |-> factory, partial |-> FALSE, options |-> NoOptions]
Partial(factory, options) == [factory |-> factory, partial |-> TRUE, options |-> options]

BuiltinSources == ("env" :> "EnvSource") @@ ("ini" :> "IniFileSource") @@ ("secrets" :> "SecretsSource")

NoCall == [op |-> "none", name |-> "", env |-> "", options |-> NoOptions,
           configuration |-> <<>>, outcome |-> "ok",
           srcs |-> <<>>, active |-> "", looked |-> <<>>, instantiated |-> <<>>,
           invoked |-> 0, merged |-> EmptyDict]

RegistryInit ==
    /\ sources = BuiltinSources
    /\ registry = ("default" :> [n \in DOMAIN BuiltinSources |-> Base(BuiltinSources[n])])
    /\ handles = {}
    /\ call = NoCall

\* Source.configure(env, **options), as a function of the registry: the new
\* registry, or the KeyError of __registry__[env] for an env with no table.
SourceConfigureOn(reg, name, factory, env, options) ==
    IF env \notin DOMAIN reg
    THEN [outcome |-> "KeyError", registry |-> reg]
    ELSE [outcome |-> "ok",
          registry |-> [reg EXCEPT ![env] = DictMerge(@, name :> Partial(factory, options))]]

\* register's loop over configuration.items(): stops at the first error.
RECURSIVE ConfigureEach(_, _, _, _, _)
ConfigureEach(reg, name, factory, configuration, i) ==
    IF i > Len(configuration) THEN [outcome |-> "ok", registry |-> reg]
    ELSE LET r == SourceConfigureOn(reg, name, factory, configuration[i].env, configuration[i].options)
         IN IF r.outcome # "ok" THEN r
            ELSE ConfigureEach(r.registry, name, factory, configuration, i + 1)

\* register(factory, name, configuration); configuration is the sequence of
\* the dict's items (empty for None or {}).
Register(factory, name, configuration) ==
    IF name \in DOMAIN sources
    THEN /\ call' = [NoCall EXCEPT !.op = "register", !.name = name,
                                   !.configuration = configuration, !.outcome = "ValueError"]
         /\ UNCHANGED <<sources, registry, handles, args, ret, heap, instances>>
    ELSE LET reg1 == [registry EXCEPT !["default"] = DictMerge(@, name :> Base(factory))]
             r == ConfigureEach(reg1, name, factory, configuration, 1)
         IN /\ sources' = DictMerge(sources, name :> factory)
            /\ registry' = r.registry
            /\ handles' = IF r.outcome = "ok" THEN handles \cup {[name |-> name, factory |-> factory]}
                          ELSE handles
            /\ call' = [NoCall EXCEPT !.op = "register", !.name = name,
                                      !.configuration = configuration, !.outcome = r.outcome]
            /\ UNCHANGED <<args, ret, heap, instances>>

\* registry.configure(name, env, **options)
Configure(name, env, options) ==
    IF name \notin DOMAIN sources
    THEN /\ call' = [NoCall EXCEPT !.op = "configure", !.name = name, !.env = env,
                                   !.options = options, !.outcome = "ValueError"]
         /\ UNCHANGED <<sources, registry, handles, args, ret, heap, instances>>
    ELSE LET r == SourceConfigureOn(registry, name, sources[name], env, options)
         IN /\ registry' = r.registry
            /\ handles' = IF r.outcome = "ok"
                          THEN handles \cup {[name |-> name, factory |-> sources[name]]}
                          ELSE handles
            /\ call' = [NoCall EXCEPT !.op = "configure", !.name = name, !.env = env,
                                      !.options = options, !.outcome = r.outcome]
            /\ UNCHANGED <<sources, args, ret, heap, instances>>

\* Source.configure(env, **options) on a Source object handed out earlier.
SourceConfigure(h, env, options) ==
    /\ h \in handles
    /\ LET r == SourceConfigureOn(registry, h.name, h.factory, env, options)
       IN /\ registry' = r.registry
          /\ call' = [NoCall EXCEPT !.op = "source.configure", !.name = h.name, !.env = env,
                                    !.options = options, !.outcome = r.outcome]
    /\ UNCHANGED <<sources, handles, args, ret, heap, instances>>

(***************************************************************************)
(* The objects behind the validators' instances. The default arguments of  *)
(* DelimitedList.__init__ ([]) and Params.__init__ ({}) are evaluated once, *)
(* when the functions are defined: one list and one dict for the module.   *)
(***************************************************************************)
DefaultList == 0    \* address of the [] of DelimitedList.__init__
DefaultDict == 1    \* address of the {} of Params.__init__

MaxInstances == 3   \* instances created
MaxItems == 2       \* elements of a list or dict object

DefaultsInit ==
    /\ heap = (DefaultList :> <<>>) @@ (DefaultDict :> <<>>)
    /\ instances = <<>>

(***************************************************************************)
(* The resolution pipeline, Settings._build_values.                        *)
(***************************************************************************)
\* str.lower() on the environment tokens of the model.
LowerEnv(s) == CASE s = "PROD" -> "prod" [] s = "Local" -> "local" [] OTHER -> s

\* The active environment: Config.server_env is a nullary function, a string,
\* or neither.
ServerEnv(token) ==
    IF token.kind = "callable" THEN LowerEnv(token.value)
    ELSE IF token.kind = "str" THEN LowerEnv(token.value)
    ELSE "default"

\* dict.get(env, {}) on the registry.
RegistryGet(reg, env) == IF env \in DOMAIN reg THEN reg[env] ELSE EmptyDict

\* A pipeline that looks in the active environment's table alone.
ActiveTableEnvOnly(reg, env) == RegistryGet(reg, env)

\* sources = {**default_registry, **env_sources}
ActiveTable(reg, env) == DictMerge(RegistryGet(reg, "default"), RegistryGet(reg, env))

\* next((x for x in sources if x not in table), None)
RECURSIVE FirstUnknown(_, _, _)
FirstUnknown(srcs, table, i) ==
    IF i > Len(srcs) THEN [found |-> FALSE, name |-> ""]
    ELSE IF srcs[i] \notin DOMAIN table THEN [found |-> TRUE, name |-> srcs[i]]
    ELSE FirstUnknown(srcs, table, i + 1)

\* `if unk := ...`: the guard is the truthiness of the name found; None and
\* the empty string are both false.
UnknownGuard(unk) == unk.found /\ unk.name # ""

\* server_env in SettingsMeta.__new__, when the class is built (token.built):
\* what the function returns then, lower-cased; a string as written. It is
\* read from the Config of the class statement alone: a class that inherits
\* its Config is built with what the default get_server_env returns.
MetaServerEnv(token) ==
    IF token.kind = "callable" THEN LowerEnv(token.built) ELSE token.built

\* Config.env_file as SettingsMeta.__new__ sets it: ".env." and that
\* server_env, or ".env" when it is false (None or the empty string).
MetaEnvFile(token) ==
    IF MetaServerEnv(token) # "" THEN ".env." \o MetaServerEnv(token) ELSE ".env"

\* What a schema declares besides sources and server_env: the members of its
\* Config class, those of the nested <Env>Config class named after the
\* server_env of class creation, and the keywords of the class statement.
NoDeclared == [config |-> EmptyDict, env_config |-> EmptyDict, kwargs |-> EmptyDict]

\* config_ns of SettingsMeta.__new__: env_file, then the nested class's
\* public members (looked up only when server_env is true), then the keywords.
ConfigNs(token, declared) ==
    LET nested == IF MetaServerEnv(token) # "" THEN declared.env_config ELSE EmptyDict
    IN DictMerge(DictMerge("env_file" :> MetaEnvFile(token), nested), declared.kwargs)

\* The public members of the Config class that some factory takes (those of
\* Settings.Config, the schema's Config over them, config_ns over both), with
\* options["server_env"] = server_env.
ConfigOptions(token, declared, env) ==
    DictMerge(DictMerge(DictMerge("case_sensitive" :> "False", declared.config),
                        ConfigNs(token, declared)),
              "server_env" :> env)

\* The parameters each factory's signature declares.
FactoryParams(factory) ==
    CASE factory = "EnvSource" ->
            {"env_file", "env_file_encoding", "env_nested_delimiter", "env_prefix", "case_sensitive"}
      [] factory = "IniFileSource" ->
            {"ini_file", "ini_file_encoding", "ini_default_section", "case_sensitive"}
      [] factory = "SecretsSource" -> {"secrets_dir", "case_sensitive"}
      [] factory = "F1" -> {"server_env", "env_prefix"}
      [] OTHER -> {"env_prefix"}

\* inspect.signature(binding) fails for a partial holding a keyword the
\* factory does not declare.
SignatureOk(b) == DOMAIN b.options \subseteq FactoryParams(b.factory)

\* bind_partial of the options the signature names, apply_defaults, and the
\* call factory(*args, **kwargs): the keyword arguments the source is built with.
BoundKwargs(b, options) ==
    DictMerge(b.options, [n \in DOMAIN options \cap FactoryParams(b.factory) |-> options[n]])

\* The loop that builds config_sources after InitSource(values): the bindings
\* fetched from the table, the sources built, and how the loop ended.
RECURSIVE Instantiate(_, _, _, _, _, _)
Instantiate(srcs, table, options, i, looked, built) ==
    IF i > Len(srcs) THEN [outcome |-> "ok", looked |-> looked, built |-> built]
    ELSE IF srcs[i] \notin DOMAIN table
         THEN [outcome |-> "KeyError", looked |-> looked, built |-> built]
    ELSE LET b == table[srcs[i]]
         IN IF ~SignatureOk(b)
            THEN [outcome |-> "SignatureError", looked |-> Append(looked, b), built |-> built]
            ELSE Instantiate(srcs, table, options, i + 1, Append(looked, b),
                             Append(built, [binding |-> b, kwargs |-> BoundKwargs(b, options)]))

\* [source(self) for source in config_sources]: the mappings up to the first
\* source that raises.
RECURSIVE Invoke(_, _, _)
Invoke(outs, i, got) ==
    IF i > Len(outs) THEN [outcome |-> "ok", got |-> got, invoked |-> Len(outs)]
    ELSE IF ~outs[i].ok THEN [outcome |-> "SourceError", got |-> got, invoked |-> i]
    ELSE Invoke(outs, i + 1, Append(got, outs[i].val))

\* A merge that forgets to reverse: the last source would win.
MergeOrderForward(results) == results

\* deep_update(*reversed([source(self) for source in config_sources]))
MergeOrder(results) == Reversed(results)
MergeResults(results) == DeepUpdate(MergeOrder(results))

\* _build_values(values) for a schema whose Config names the sources srcs and
\* the environment token and declares the members declared; outs[i] is what
\* the i-th configured source returns (or that it raises) when called.
BuildValues(reg, srcs, token, declared, values, outs) ==
    LET env == ServerEnv(token)
        table == ActiveTable(reg, env)
        unk == FirstUnknown(srcs, table, 1)
        inst == Instantiate(srcs, table, ConfigOptions(token, declared, env), 1, <<>>, <<>>)
        inv == Invoke(<<[ok |-> TRUE, val |-> values]>> \o outs, 1, <<>>)
        res == [NoCall EXCEPT !.op = "resolve", !.srcs = srcs, !.active = env]
    IN IF UnknownGuard(unk)
       THEN [res EXCEPT !.outcome = "UnknownSource", !.name = unk.name]
       ELSE IF inst.outcome # "ok"
       THEN [res EXCEPT !.outcome = inst.outcome, !.looked = inst.looked, !.instantiated = inst.built]
       ELSE IF inv.outcome # "ok"
       THEN [res EXCEPT !.outcome = inv.outcome, !.looked = inst.looked,
                        !.instantiated = inst.built, !.invoked = inv.invoked]
       ELSE [res EXCEPT !.looked = inst.looked, !.instantiated = inst.built,
                        !.invoked = inv.invoked, !.merged = MergeResults(inv.got)]

Resolve(srcs, token, declared, values, outs) ==
    /\ Len(outs) = Len(srcs)
    /\ call' = BuildValues(registry, srcs, token, declared, values, outs)
    /\ UNCHANGED <<sources, registry, handles, args, ret, heap, instances>>

(***************************************************************************)
(* Spec: the registry and the pipeline's choice of factories.              *)
(***************************************************************************)
MaxSrcs == 2        \* length of a schema's configured source list
MaxConfig == 2      \* entries of register's configuration dict

NoArgs == [op |-> "none"]
NoRet == [op |-> "none"]

SourceNames == {"env", "a", ""}
Envs == {"default", "prod", "local"}
OptionSets == {"env_prefix" :> "P1", "env_prefix" :> "P2"}
\* Config.server_env: a function, a string, or None: its value when
\* _build_values runs, and the server_env of the class's creation.
Token(kind, value, built) == [kind |-> kind, value |-> value, built |-> built]
Tokens == {Token("callable", "Local", "Local"), Token("callable", "PROD", "Local"),
           Token("callable", "", ""), Token("str", "PROD", "PROD"),
           Token("str", "PROD", "local"),
           Token("str", "default", "default"), Token("other", "", "")}

\* The schemas resolved: every token with nothing more declared, and
\* declarations of options the factories take.
Declarations ==
    {[NoDeclared EXCEPT !.config = ("env_prefix" :> "P0") @@ ("case_sensitive" :> "True")
                                   @@ ("env_file" :> "my.env")],
     [NoDeclared EXCEPT !.env_config = "env_file" :> "nested.env"],
     [NoDeclared EXCEPT !.env_config = "env_file" :> "nested.env",
                        !.kwargs = "env_file" :> "kw.env"]}
SchemaConfigs ==
    {[token |-> t, declared |-> NoDeclared] : t \in Tokens}
    \cup {[token |-> t, declared |-> d] :
            t \in {Token("callable", "Local", "Local"), Token("other", "", "")},
            d \in Declarations}

SeqsUpTo(S, n) == UNION {[1..m -> S] : m \in 0..n}

\* The items of a configuration dict: distinct environments, in order.
Configurations ==
    {c \in SeqsUpTo([env : Envs, options : OptionSets], MaxConfig) :
        \A i, j \in 1..Len(c) : i # j => c[i].env # c[j].env}

OkOut(m) == [ok |-> TRUE, val |-> m]

Init ==
    /\ RegistryInit
    /\ DefaultsInit
    /\ args = NoArgs
    /\ ret = NoRet

Next ==
    \/ \E name \in SourceNames, configuration \in Configurations :
            Register("F1", name, configuration)
    \/ \E name \in SourceNames, env \in Envs, options \in OptionSets :
            Configure(name, env, options)
    \/ \E h \in handles, env \in Envs, options \in OptionSets :
            SourceConfigure(h, env, options)
    \/ \E srcs \in SeqsUpTo(SourceNames, MaxSrcs), c \in SchemaConfigs :
            Resolve(srcs, c.token, c.declared, EmptyDict,
                    [i \in 1..Len(srcs) |-> OkOut(EmptyDict)])

Spec == Init /\ [][Next]_vars

(***************************************************************************)
(* SpecMerge: the pipeline's merge, on drawn explicit values and source    *)
(* results.  Every leaf a source supplies is tagged with the source's      *)
(* position (0 for the explicit values).                                   *)
(***************************************************************************)
MaxMergeSrcs == 2   \* configured sources of the merged schema

Leaf(i) == Str(ToString(i))

\* The mappings source i may return: x absent, a leaf, or a dict over a, b
\* (a: a leaf or a one-key dict); y absent or a leaf.
SubDicts(i) ==
    {DictMerge(a, b) : a \in {EmptyDict, "a" :> Leaf(i), "a" :> Map("c" :> Leaf(i))},
                       b \in {EmptyDict, "b" :> Leaf(i)}}
TopValues(i) == {Leaf(i)} \cup {Map(m) : m \in SubDicts(i)}
Mappings(i) ==
    {DictMerge(x, y) : x \in {EmptyDict} \cup {"x" :> v : v \in TopValues(i)},
                       y \in {EmptyDict, "y" :> Leaf(i)}}

SourceOuts(i) == {[ok |-> FALSE, val |-> EmptyDict]} \cup {OkOut(m) : m \in Mappings(i)}

\* What sources 1..n return, source i drawing from SourceOuts(i).
RECURSIVE OutsOf(_)
OutsOf(n) == IF n = 0 THEN {<<>>} ELSE {Append(o, s) : o \in OutsOf(n - 1), s \in SourceOuts(n)}

MergeInputs(n) ==
    {[op |-> "resolve", values |-> v, outs |-> o] : v \in Mappings(0), o \in OutsOf(n)}

BuiltinOrder == <<"env", "secrets", "ini">>

MergeInit ==
    /\ RegistryInit
    /\ DefaultsInit
    /\ \E n \in 0..MaxMergeSrcs : args \in MergeInputs(n)
    /\ ret = NoRet

\* The schema is built once, from the drawn inputs.
ResolveDrawn ==
    /\ call.op = "none"
    /\ Resolve([i \in 1..Len(args.outs) |-> BuiltinOrder[((i - 1) % 3) + 1]],
               Token("callable", "Local", "Local"), NoDeclared, args.values, args.outs)

SpecMerge == MergeInit /\ [][ResolveDrawn]_vars

(***************************************************************************)
(* C1                                                                      *)
(***************************************************************************)
\* The mappings in precedence order: explicit values, then the sources.
Supplied == <<args.values>> \o [i \in 1..Len(args.outs) |-> args.outs[i].val]
Suppliers(k) == {i \in 1..Len(Supplied) : k \in DOMAIN Supplied[i]}
Earliest(k) == CHOOSE i \in Suppliers(k) : \A j \in Suppliers(k) : i <= j
TopKeys == UNION {DOMAIN Supplied[i] : i \in 1..Len(Supplied)}
Resolved == call.op = "resolve" /\ call.outcome = "ok"

\* The value a key gets from the values vs supplied for it, earliest first:
\* the first one, deep-merged over what the later ones give when both are dicts.
RECURSIVE PrecValue(_)
PrecValue(vs) ==
    IF Len(vs) = 1 THEN vs[1]
    ELSE LET rest == PrecValue(Tail(vs))
         IN IF IsMap(vs[1]) /\ IsMap(rest)
            THEN Map([j \in DOMAIN vs[1].v \cup DOMAIN rest.v |->
                        IF j \notin DOMAIN rest.v THEN vs[1].v[j]
                        ELSE IF j \notin DOMAIN vs[1].v THEN rest.v[j]
                        ELSE PrecValue(<<vs[1].v[j], rest.v[j]>>)])
            ELSE vs[1]

RECURSIVE ValuesFor(_, _)
ValuesFor(k, i) ==
    IF i > Len(Supplied) THEN <<>>
    ELSE (IF k \in DOMAIN Supplied[i] THEN <<Supplied[i][k]>> ELSE <<>>) \o ValuesFor(k, i + 1)

\* C1 as stated: every top-level key of the merged mapping holds the value of
\* the earliest source that supplies it, in the order explicit values, source
\* 1, ..., source n.
C1_EarliestSourceValue ==
    Resolved =>
        /\ DOMAIN call.merged = TopKeys
        /\ \A k \in TopKeys : call.merged[k] = Supplied[Earliest(k)][k]

\* C1 amended: every top-level key holds the earliest supplier's value when
\* that value is not a dict; when it is a dict and what the later suppliers
\* give for the key is a dict too, the key holds their recursive deep-merge,
\* in which the earlier source wins on every nested key both supply.
C1_EarliestSourceWinsDeep ==
    Resolved =>
        /\ DOMAIN call.merged = TopKeys
        /\ \A k \in TopKeys :
              /\ call.merged[k] = PrecValue(ValuesFor(k, 1))
              /\ ~IsMap(Supplied[Earliest(k)][k]) => call.merged[k] = Supplied[Earliest(k)][k]

\* Three suppliers of x: the explicit values and source 1 give dicts that are
\* merged, and y comes from a configured source under an explicit x.
C1_Witness ==
    /\ Resolved
    /\ Len(args.outs) = 2
    /\ Suppliers("x") = {1, 2, 3}
    /\ IsMap(args.values["x"]) /\ IsMap(args.outs[1].val["x"])
    /\ call.merged["x"] # args.values["x"]
    /\ Suppliers("y") = {2, 3}
    /\ call.merged["y"] = Leaf(1)

(***************************************************************************)
(* C2                                                                      *)
(***************************************************************************)
\* The binding the claim names for a source under environment e: table e's
\* if it has one, else table "default"'s.
TableBinding(reg, e, name) ==
    IF e \in DOMAIN reg /\ name \in DOMAIN reg[e] THEN [found |-> TRUE, b |-> reg[e][name]]
    ELSE IF name \in DOMAIN reg["default"] THEN [found |-> TRUE, b |-> reg["default"][name]]
    ELSE [found |-> FALSE, b |-> Base("")]

C2_UsesTableBinding ==
    call.op = "resolve" =>
        /\ \A i \in 1..Len(call.looked) :
              call.looked[i] = TableBinding(registry, call.active, call.srcs[i]).b
        /\ (\A i \in 1..Len(call.srcs) : TableBinding(registry, call.active, call.srcs[i]).found)
              => /\ call.outcome \notin {"UnknownSource", "KeyError"}
                 /\ call.outcome = "ok" => Len(call.looked) = Len(call.srcs)

C2_ConfigureIsIsolated ==
    \A e \in Envs, f \in Envs :
        (call'.op \in {"configure", "source.configure"} /\ call'.env = e /\ e # "default" /\ e # f)
            => ActiveTable(registry', f) = ActiveTable(registry, f)

\* C2: resolution under environment E uses, for every configured name, the
\* binding of table E if there is one and else the binding of table
\* "default"; configuring a source for one non-default environment leaves the
\* table every other environment resolves with unchanged.
C2_RegistryIsolation == [](C2_UsesTableBinding) /\ [][C2_ConfigureIsIsolated]_vars

\* A "default" binding made with options is the one used under "local".
C2_Witness ==
    /\ call.op = "resolve" /\ call.outcome = "ok" /\ call.active = "local"
    /\ call.srcs = <<"env", "a">>
    /\ call.looked[1] = Partial("EnvSource", "env_prefix" :> "P2")
    /\ call.looked[2] = registry["default"]["a"]

(***************************************************************************)
(* C3                                                                      *)
(***************************************************************************)
\* C3: configure of a registered source for any environment succeeds and
\* leaves that environment's table mapping the name to the base factory
\* bound with exactly the given options; so does every entry of register's
\* configuration.
C3_ConfigureBindsForAnyEnv ==
    /\ (call.op \in {"configure", "source.configure"} /\ call.name \in DOMAIN sources)
          => /\ call.outcome = "ok"
             /\ call.env \in DOMAIN registry
             /\ call.name \in DOMAIN registry[call.env]
             /\ registry[call.env][call.name] = Partial(sources[call.name], call.options)
    /\ (call.op = "register" /\ call.outcome # "ValueError")
          => /\ call.outcome = "ok"
             /\ \A i \in 1..Len(call.configuration) :
                   /\ call.configuration[i].env \in DOMAIN registry
                   /\ registry[call.configuration[i].env][call.name]
                        = Partial(sources[call.name], call.configuration[i].options)

(***************************************************************************)
(* C4                                                                      *)
(***************************************************************************)
\* C4: resolution ends with the unknown-source error, before any factory is
\* instantiated or invoked, exactly when some configured name is absent from
\* the active table.
C4_UnknownSourceFirst ==
    call.op = "resolve" =>
        LET table == ActiveTable(registry, call.active)
            missing == \E i \in 1..Len(call.srcs) : call.srcs[i] \notin DOMAIN table
        IN /\ missing => /\ call.outcome = "UnknownSource"
                         /\ call.instantiated = <<>>
                         /\ call.invoked = 0
           /\ ~missing => call.outcome # "UnknownSource"

(***************************************************************************)
(* Strings are sequences of characters, so that prefix tests, splitting    *)
(* and case folding are computed.  None is a value no string equals.       *)
(***************************************************************************)
None == <<"<None>">>

StartsWith(s, prefix) == Len(prefix) <= Len(s) /\ SubSeq(s, 1, Len(prefix)) = prefix

Uppers == <<"A", "B", "C", "D", "E", "F", "G", "H", "I", "J", "K", "L", "M",
            "N", "O", "P", "Q", "R", "S", "T", "U", "V", "W", "X", "Y", "Z">>
Lowers == <<"a", "b", "c", "d", "e", "f", "g", "h", "i", "j", "k", "l", "m",
            "n", "o", "p", "q", "r", "s", "t", "u", "v", "w", "x", "y", "z">>

LowerChar(c) ==
    IF \E i \in 1..Len(Uppers) : Uppers[i] = c
    THEN Lowers[CHOOSE i \in 1..Len(Uppers) : Uppers[i] = c]
    ELSE c

\* str.lower()
Lower(s) == [i \in 1..Len(s) |-> LowerChar(s[i])]

\* str.split(sep) for a non-empty sep: the pieces between the non-overlapping
\* occurrences of sep, scanned from the left.
RECURSIVE SplitFrom(_, _, _, _)
SplitFrom(s, sep, i, cur) ==
    IF i > Len(s) THEN <<cur>>
    ELSE IF i + Len(sep) - 1 <= Len(s) /\ SubSeq(s, i, i + Len(sep) - 1) = sep
         THEN <<cur>> \o SplitFrom(s, sep, i + Len(sep), <<>>)
         ELSE SplitFrom(s, sep, i + 1, Append(cur, s[i]))

Split(s, sep) == SplitFrom(s, sep, 1, <<>>)

(***************************************************************************)
(* An ordered dict of strings (os.environ, a dotenv file): a sequence of   *)
(* [k, v] items with distinct keys, in insertion order.                    *)
(***************************************************************************)
HasKey(items, k) == \E i \in 1..Len(items) : items[i].k = k

\* d[k] = v: in place for a key already there, appended otherwise.
PutItem(items, k, v) ==
    IF HasKey(items, k)
    THEN [i \in 1..Len(items) |-> IF items[i].k = k THEN [k |-> k, v |-> v] ELSE items[i]]
    ELSE Append(items, [k |-> k, v |-> v])

\* {**a, **b} on ordered dicts
RECURSIVE PutAll(_, _, _)
PutAll(a, b, i) == IF i > Len(b) THEN a ELSE PutAll(PutItem(a, b[i].k, b[i].v), b, i + 1)

\* {k.lower(): v for k, v in items}
LowerKeys(items) == PutAll(<<>>, [i \in 1..Len(items) |-> [k |-> Lower(items[i].k), v |-> items[i].v]], 1)

\* dict.get(k): the value, or None
ItemGet(items, k) ==
    IF HasKey(items, k)
    THEN [found |-> TRUE, v |-> items[CHOOSE i \in 1..Len(items) : items[i].k = k].v]
    ELSE [found |-> FALSE, v |-> ""]

(***************************************************************************)
(* EnvSource                                                               *)
(***************************************************************************)
\* json.loads on the raw values of the model: a dict, another JSON value, or
\* the ValueError of a text that is not JSON.
JsonLoads(raw) ==
    CASE raw = "{\"h\":\"j\"}" -> [ok |-> TRUE, val |-> Map(<<"h">> :> Str("j"))]
      [] raw = "{\"h\":{\"k\":\"j\"}}" ->
            [ok |-> TRUE, val |-> Map(<<"h">> :> Map(<<"k">> :> Str("j")))]
      [] raw = "{\"p\":\"q\"}" -> [ok |-> TRUE, val |-> Map(<<"p">> :> Str("q"))]
      [] raw = "{}" -> [ok |-> TRUE, val |-> Map(EmptyDict)]
      [] raw = "5" -> [ok |-> TRUE, val |-> Json("5")]
      [] OTHER -> [ok |-> FALSE, val |-> Str(raw)]

\* A field with no "env" (or "ini") extra.
NoExtra == <<>>

\* _get_source_names(field, "env", transform): the field's "env" extra (one
\* name or a list) or else its name, each transformed.
GetSourceNames(field, lower) ==
    LET names == IF field.env = NoExtra THEN <<field.name>> ELSE field.env
    IN [i \in 1..Len(names) |-> IF lower THEN Lower(names[i]) ELSE names[i]]

\* EnvSource.field_is_complex: <<is_complex, allow_json_failure>>
FieldIsComplex(field) ==
    IF field.type = "complex" THEN <<TRUE, FALSE>>
    ELSE IF field.type = "union" THEN <<TRUE, TRUE>>
    ELSE <<FALSE, FALSE>>

\* The walk of explode_env_vars for one variable: setdefault(key, {}) along
\* keys, then env_var[last_key] = env_val.  A string met on the way has no
\* setdefault (AttributeError) and takes no item assignment (TypeError).
RECURSIVE SetNested(_, _, _, _)
SetNested(d, keys, last, val) ==
    IF keys = <<>> THEN [outcome |-> "ok", val |-> DictMerge(d, last :> Str(val))]
    ELSE LET k == Head(keys)
             child == IF k \in DOMAIN d THEN d[k] ELSE Map(EmptyDict)
         IN IF ~IsMap(child)
            THEN [outcome |-> IF Len(keys) > 1 THEN "AttributeError" ELSE "TypeError",
                  val |-> d]
            ELSE LET r == SetNested(child.v, Tail(keys), last, val)
                 IN IF r.outcome # "ok" THEN [outcome |-> r.outcome, val |-> d]
                    ELSE [outcome |-> "ok", val |-> DictMerge(d, k :> Map(r.val))]

\* EnvSource.explode_env_vars(env_vars, env_names, env_nested_delimiter)
RECURSIVE ExplodeFrom(_, _, _, _, _)
ExplodeFrom(env_vars, prefixes, delim, i, result) ==
    IF i > Len(env_vars) THEN [outcome |-> "ok", val |-> result]
    ELSE IF ~\E j \in 1..Len(prefixes) : StartsWith(env_vars[i].k, prefixes[j])
         THEN ExplodeFrom(env_vars, prefixes, delim, i + 1, result)
    ELSE IF delim = <<>>
         THEN [outcome |-> "ValueError", val |-> result]    \* str.split(""): empty separator
    ELSE LET parts == Split(env_vars[i].k, delim)
             keys == SubSeq(parts, 2, Len(parts) - 1)
             r == SetNested(result, keys, parts[Len(parts)], env_vars[i].v)
         IN IF r.outcome # "ok" THEN r
            ELSE ExplodeFrom(env_vars, prefixes, delim, i + 1, r.val)

ExplodeEnvVars(env_vars, env_names, env_nested_delimiter) ==
    LET delim == IF env_nested_delimiter = None THEN <<>> ELSE env_nested_delimiter
        prefixes == [j \in 1..Len(env_names) |-> env_names[j] \o delim]
    IN ExplodeFrom(env_vars, prefixes, delim, 1, EmptyDict)

\* The matchfull branch: every variable whose whole name matches the pattern
\* `prefix(.+)` adds its value under the lower-cased captured group.
RECURSIVE MatchFull(_, _, _, _)
MatchFull(env_vars, prefix, i, sub) ==
    IF i > Len(env_vars) THEN sub
    ELSE LET k == env_vars[i].k
         IN IF StartsWith(k, prefix) /\ Len(k) > Len(prefix)
            THEN MatchFull(env_vars, prefix, i + 1,
                           [found |-> TRUE,
                            val |-> DictMerge(sub.val, Lower(SubSeq(k, Len(prefix) + 1, Len(k)))
                                                          :> Str(env_vars[i].v))])
            ELSE MatchFull(env_vars, prefix, i + 1, sub)

\* for env_name in env_names: env_val = env_vars.get(env_name); break on a value.
\* The name left in env_name is the one that matched, or the last one probed.
RECURSIVE FirstPresent(_, _, _)
FirstPresent(env_vars, env_names, i) ==
    IF i > Len(env_names) THEN [found |-> FALSE, v |-> "", name |-> <<>>]
    ELSE LET g == ItemGet(env_vars, env_names[i])
         IN IF g.found THEN [found |-> TRUE, v |-> g.v, name |-> env_names[i]]
            ELSE IF i = Len(env_names) THEN [found |-> FALSE, v |-> "", name |-> env_names[i]]
            ELSE FirstPresent(env_vars, env_names, i + 1)

\* A merge in which the decoded value is the updating side.
MergeDecodedLast(decoded, exploded) == DeepUpdate(<<exploded, decoded>>)

\* deep_update(env_val, explode_env_vars(...)): the exploded sub-mapping is the
\* updating side.
MergeDecoded(decoded, exploded) == DeepUpdate(<<decoded, exploded>>)

\* A source that drops the raw string of a tolerated decode failure and keeps
\* the exploded sub-mapping alone.
ComplexWithValueDiscard(raw, allow_json_failure, env_vars, env_names, delim) ==
    LET j == JsonLoads(raw)
        e == ExplodeEnvVars(env_vars, env_names, delim)
    IN IF ~j.ok /\ ~allow_json_failure THEN [outcome |-> "SettingsError", set |-> FALSE, val |-> Str(raw)]
       ELSE IF e.outcome # "ok" THEN [outcome |-> e.outcome, set |-> FALSE, val |-> Str(raw)]
       ELSE IF j.ok /\ ~IsMap(j.val) THEN [outcome |-> "ok", set |-> TRUE, val |-> j.val]
       ELSE [outcome |-> "ok", set |-> TRUE,
             val |-> Map(DeepUpdate(<<IF j.ok THEN j.val.v ELSE EmptyDict, e.val>>))]

\* The value of a complex field that has a direct value.
ComplexWithValue(raw, allow_json_failure, env_vars, env_names, delim) ==
    LET j == JsonLoads(raw)
    IN IF ~j.ok /\ ~allow_json_failure THEN [outcome |-> "SettingsError", set |-> FALSE, val |-> Str(raw)]
       ELSE LET env_val == IF j.ok THEN j.val ELSE Str(raw)
            IN IF IsMap(env_val)
               THEN LET e == ExplodeEnvVars(env_vars, env_names, delim)
                    IN IF e.outcome # "ok" THEN [outcome |-> e.outcome, set |-> FALSE, val |-> env_val]
                       ELSE [outcome |-> "ok", set |-> TRUE,
                             val |-> Map(MergeDecoded(env_val.v, e.val))]
               ELSE [outcome |-> "ok", set |-> TRUE, val |-> env_val]

\* One turn of the loop over model.__fields__: what the field adds to d.
EnvField(self, env_vars, field, d) ==
    IF field.matchfull # None
    THEN LET m == MatchFull(env_vars, field.matchfull, 1, [found |-> FALSE, val |-> EmptyDict])
         IN [outcome |-> "ok",
             d |-> IF m.found
                   THEN DictMerge(d, field.alias :>
                            Map(DictMerge(IF field.alias \in DOMAIN d THEN d[field.alias].v
                                          ELSE EmptyDict, m.val)))
                   ELSE d]
    ELSE LET names == GetSourceNames(field, ~self.case_sensitive)
             env_names == IF self.env_prefix # None /\ self.env_prefix # <<>>
                          THEN [i \in 1..Len(names) |-> self.env_prefix \o names[i]]
                          ELSE names
             got == FirstPresent(env_vars, env_names, 1)
             cx == FieldIsComplex(field)
         IN IF cx[1]
            THEN IF ~got.found
                 THEN LET e == ExplodeEnvVars(env_vars, env_names, self.env_nested_delimiter)
                      IN IF e.outcome # "ok" THEN [outcome |-> e.outcome, d |-> d]
                         ELSE [outcome |-> "ok",
                               d |-> IF e.val # EmptyDict
                                     THEN DictMerge(d, field.alias :> Map(e.val)) ELSE d]
                 ELSE LET c == ComplexWithValue(got.v, cx[2], env_vars, env_names,
                                                self.env_nested_delimiter)
                      IN IF c.outcome # "ok" THEN [outcome |-> c.outcome, d |-> d]
                         ELSE [outcome |-> "ok", d |-> DictMerge(d, field.alias :> c.val)]
            ELSE [outcome |-> "ok",
                  d |-> IF got.found THEN DictMerge(d, field.alias :> Str(got.v)) ELSE d]

RECURSIVE EnvFields(_, _, _, _, _)
EnvFields(self, env_vars, fields, i, d) ==
    IF i > Len(fields) THEN [outcome |-> "ok", d |-> d]
    ELSE LET r == EnvField(self, env_vars, fields[i], d)
         IN IF r.outcome # "ok" THEN r ELSE EnvFields(self, env_vars, fields, i + 1, r.d)

\* The variables EnvSource reads: os.environ (keys lower-cased unless
\* case-sensitive) over the dotenv file's, when env_file names a file.
EnvVars(self, environ, file) ==
    LET live == IF self.case_sensitive THEN environ ELSE LowerKeys(environ)
        read == IF self.case_sensitive THEN file.vars ELSE LowerKeys(file.vars)
    IN IF self.env_file # None /\ file.is_file THEN PutAll(read, live, 1) ELSE live

\* EnvSource.__call__(model), for the source self, the process environment,
\* the file env_file names and the model's fields.
EnvSourceCall(self, environ, file, fields) ==
    IF self.env_file # None /\ file.is_file /\ ~file.dotenv
    THEN [op |-> "env", outcome |-> "ImportError", d |-> EmptyDict]
    ELSE LET r == EnvFields(self, EnvVars(self, environ, file), fields, 1, EmptyDict)
         IN [op |-> "env", outcome |-> r.outcome,
             d |-> IF r.outcome = "ok" THEN r.d ELSE EmptyDict]

EnvCall ==
    /\ args.op = "env" /\ ret = NoRet
    /\ ret' = EnvSourceCall(args.self, args.environ, args.file, args.fields)
    /\ UNCHANGED <<sources, registry, handles, call, args, heap, instances>>

(***************************************************************************)
(* SpecEnv: EnvSource on drawn environments, settings and fields.          *)
(***************************************************************************)
Absent == "<absent>"

\* The variables an environment of the model may hold, with their values.
EnvNameOrder == << <<"D">>, <<"D", "_", "_", "H">>, <<"D", "_", "_", "P">>,
                   <<"D", "_", "_", "H", "_", "_", "K">>, <<"D", "X">>, <<"E">> >>

Present(names, vals) ==
    SelectSeq([i \in 1..Len(names) |-> [k |-> names[i], v |-> vals[i]]], LAMBDA it : it.v # Absent)

Environs ==
    UNION {{Present(EnvNameOrder, vals), Present(Reversed(EnvNameOrder), Reversed(vals))} :
        vals \in {<<d, h, p, hk, x, e>> :
            d \in {Absent, "{\"h\":\"j\"}", "{\"h\":{\"k\":\"j\"}}", "oops", "5"},
            h \in {Absent, "x"}, p \in {Absent, "y"}, hk \in {Absent, "z"},
            x \in {Absent, "w"}, e \in {Absent, "{\"p\":\"q\"}"}}}

NoFile == [is_file |-> FALSE, dotenv |-> TRUE, vars |-> <<>>]
DotenvVars == << [k |-> <<"D", "_", "_", "P">>, v |-> "f"], [k |-> <<"D">>, v |-> "{}"] >>

\* <<env_file, the file it names>>
EnvFiles ==
    { <<None, NoFile>>, << <<".", "e">>, NoFile >>,
      << <<".", "e">>, [is_file |-> TRUE, dotenv |-> TRUE, vars |-> DotenvVars] >>,
      << <<".", "e">>, [is_file |-> TRUE, dotenv |-> FALSE, vars |-> DotenvVars] >> }

EnvSelves ==
    {[env_file |-> None, env_nested_delimiter |-> dl, env_prefix |-> None, case_sensitive |-> cs] :
        dl \in {None, <<"_", "_">>}, cs \in BOOLEAN}
    \cup {[env_file |-> None, env_nested_delimiter |-> <<"_", "_">>,
           env_prefix |-> <<"D", "_", "_">>, case_sensitive |-> TRUE]}

ValueFields ==
    {[name |-> <<"d">>, alias |-> <<"d", "a">>, env |-> e, type |-> t, matchfull |-> None] :
        e \in {NoExtra, << <<"D">> >>, << <<"D">>, <<"E">> >>, << <<"H">> >>},
        t \in {"plain", "complex", "union"}}

PatternFields ==
    {[name |-> <<"s">>, alias |-> <<"s">>, env |-> NoExtra, type |-> "complex", matchfull |-> m] :
        m \in { <<"d", "_", "_">>, <<"D", "_", "_">> }}

Schemas ==
    {<<f>> : f \in ValueFields \cup PatternFields}
    \cup {<<f, m>> : f \in {g \in ValueFields : g.type = "complex" /\ g.env # NoExtra},
                     m \in PatternFields}

EnvInputs ==
    {[op |-> "env", self |-> [sf EXCEPT !.env_file = fl[1]], environ |-> en, file |-> fl[2],
      fields |-> sc] :
        sf \in EnvSelves, en \in Environs, fl \in EnvFiles, sc \in Schemas}

EnvInit ==
    /\ RegistryInit
    /\ DefaultsInit
    /\ args \in EnvInputs
    /\ ret = NoRet

SpecEnv == EnvInit /\ [][EnvCall]_vars

(***************************************************************************)
(* C5, C6, C7                                                              *)
(***************************************************************************)
\* What the call read for the first field of the schema.
EnvRead == EnvVars(args.self, args.environ, args.file)
Field1 == args.fields[1]
Field1Names ==
    LET names == GetSourceNames(Field1, ~args.self.case_sensitive)
    IN IF args.self.env_prefix # None
       THEN [i \in 1..Len(names) |-> args.self.env_prefix \o names[i]] ELSE names
Field1Direct == FirstPresent(EnvRead, Field1Names, 1)
Field1Exploded == ExplodeEnvVars(EnvRead, Field1Names, args.self.env_nested_delimiter)
EnvReturned == args.op = "env" /\ ret.op = "env"
EnvReadable == args.self.env_file = None \/ ~args.file.is_file \/ args.file.dotenv
Field1Structured == Field1.matchfull = None /\ Field1.type \in {"complex", "union"}
Field1DecodesToMap ==
    /\ Field1Structured
    /\ Field1Direct.found
    /\ JsonLoads(Field1Direct.v).ok
    /\ IsMap(JsonLoads(Field1Direct.v).val)

\* res is the deep-merge of hi and lo with hi winning: the keys of both; a key
\* of one side has that side's value; a key of both has hi's value unless both
\* values are dicts, which are merged the same way.
RECURSIVE IsMergeOf(_, _, _)
IsMergeOf(res, hi, lo) ==
    /\ DOMAIN res = DOMAIN hi \cup DOMAIN lo
    /\ \A k \in DOMAIN res :
          IF k \notin DOMAIN hi THEN res[k] = lo[k]
          ELSE IF k \notin DOMAIN lo THEN res[k] = hi[k]
          ELSE IF IsMap(hi[k]) /\ IsMap(lo[k])
               THEN IsMap(res[k]) /\ IsMergeOf(res[k].v, hi[k].v, lo[k].v)
               ELSE res[k] = hi[k]

\* C5 as stated: for a complex field whose direct value decodes to a dict, the
\* field's value is the deep-merge of the decoded dict and the exploded
\* sub-mapping in which the decoded value wins on every key of both.
C5_DecodedWins ==
    (EnvReturned /\ ret.outcome = "ok" /\ Field1DecodesToMap) =>
        /\ Field1.alias \in DOMAIN ret.d
        /\ IsMap(ret.d[Field1.alias])
        /\ IsMergeOf(ret.d[Field1.alias].v, JsonLoads(Field1Direct.v).val.v, Field1Exploded.val)

\* C5 amended: ... the deep-merge in which the exploded value wins on every key
\* of both (dicts on both sides being merged recursively).
C5_ExplodedWins ==
    (EnvReturned /\ ret.outcome = "ok" /\ Field1DecodesToMap) =>
        /\ Field1Exploded.outcome = "ok"
        /\ Field1.alias \in DOMAIN ret.d
        /\ IsMap(ret.d[Field1.alias])
        /\ IsMergeOf(ret.d[Field1.alias].v, Field1Exploded.val, JsonLoads(Field1Direct.v).val.v)

\* D={"h":"j"} with D__H=x and D__P=y, case-insensitive, delimiter "__":
\* the field holds h = x and p = y.
C5_Witness ==
    /\ EnvReturned /\ ret.outcome = "ok" /\ Field1DecodesToMap
    /\ Field1.type = "complex"
    /\ Field1Direct.v = "{\"h\":\"j\"}"
    /\ args.self.env_nested_delimiter = <<"_", "_">>
    /\ Field1Exploded.val = (<<"h">> :> Str("x")) @@ (<<"p">> :> Str("y"))
    /\ ret.d[Field1.alias] = Map((<<"h">> :> Str("x")) @@ (<<"p">> :> Str("y")))

Field1UndecodableUnion ==
    /\ Field1.matchfull = None /\ Field1.type = "union"
    /\ Field1Direct.found /\ ~JsonLoads(Field1Direct.v).ok
Field1UndecodableComplex ==
    /\ Field1.matchfull = None /\ Field1.type = "complex"
    /\ Field1Direct.found /\ ~JsonLoads(Field1Direct.v).ok

\* C6 as stated: for a union field with a structured alternative whose direct
\* value is not JSON, no error is raised and the field's entry is the exploded
\* sub-mapping alone (absent when that is empty); for a plainly complex field
\* the same failure raises the JSON-decode error.
C6_RawStringDiscarded ==
    (EnvReturned /\ EnvReadable) =>
        /\ (Field1UndecodableUnion /\ Field1Exploded.outcome = "ok") =>
              /\ ret.outcome = "ok"
              /\ IF Field1Exploded.val = EmptyDict THEN Field1.alias \notin DOMAIN ret.d
                 ELSE /\ Field1.alias \in DOMAIN ret.d
                      /\ ret.d[Field1.alias] = Map(Field1Exploded.val)
        /\ Field1UndecodableComplex => ret.outcome = "SettingsError"

\* C6 amended: ... no error is raised and the raw string itself is the field's
\* value, whatever the exploded sub-mapping holds; for a plainly complex field
\* the same failure raises the JSON-decode error.
C6_RawStringKept ==
    (EnvReturned /\ EnvReadable) =>
        /\ Field1UndecodableUnion =>
              /\ ret.outcome = "ok"
              /\ Field1.alias \in DOMAIN ret.d
              /\ ret.d[Field1.alias] = Str(Field1Direct.v)
        /\ Field1UndecodableComplex => ret.outcome = "SettingsError"

\* A union field with D=oops and D__H=x under the delimiter "__".
C6_Witness ==
    /\ EnvReturned /\ Field1UndecodableUnion
    /\ args.self.env_nested_delimiter = <<"_", "_">>
    /\ Field1Exploded.outcome = "ok" /\ Field1Exploded.val # EmptyDict
    /\ ret.outcome = "ok"
    /\ ret.d[Field1.alias] = Str("oops")

\* C7: with no nested delimiter, resolving a complex field ends without an
\* error other than the JSON-decode error, and with no direct value the field
\* is absent exactly when no variable's name starts with a candidate name.
C7_NoDelimiterCompletes ==
    (EnvReturned /\ EnvReadable /\ Field1Structured /\ args.self.env_nested_delimiter = None) =>
        /\ ret.outcome \in {"ok", "SettingsError"}
        /\ ~Field1Direct.found =>
              (Field1.alias \in DOMAIN ret.d
                 <=> \E i \in 1..Len(EnvRead), j \in 1..Len(Field1Names) :
                        StartsWith(EnvRead[i].k, Field1Names[j]))

(***************************************************************************)
(* SecretsSource                                                           *)
(***************************************************************************)
\* str.strip() on the file contents of the model.
StripText(text) ==
    CASE text = " one\n" -> "one" [] text = "two \n" -> "two"
      [] text = " {\"h\":\"j\"}\n" -> "{\"h\":\"j\"}"
      [] OTHER -> text

\* The loop over a field's candidate names: every candidate that is a regular
\* file assigns the field; one that exists but is no file warns.
RECURSIVE SecretCandidates(_, _, _, _, _)
SecretCandidates(dir, field, env_names, i, acc) ==
    IF i > Len(env_names) THEN acc
    ELSE LET entry == ItemGet(dir, env_names[i])
         IN IF entry.found /\ entry.v.kind = "file"
            THEN LET text == StripText(entry.v.text)
                     j == JsonLoads(text)
                 IN IF field.type = "complex" /\ ~j.ok
                    THEN [acc EXCEPT !.outcome = "SettingsError"]
                    ELSE SecretCandidates(dir, field, env_names, i + 1,
                            [acc EXCEPT !.secrets = DictMerge(@, field.alias :>
                                    IF field.type = "complex" THEN j.val ELSE Str(text))])
            ELSE SecretCandidates(dir, field, env_names, i + 1,
                    IF entry.found THEN [acc EXCEPT !.warnings = @ + 1] ELSE acc)

RECURSIVE SecretFields(_, _, _, _, _)
SecretFields(self, dir, fields, i, acc) ==
    IF i > Len(fields) \/ acc.outcome # "ok" THEN acc
    ELSE SecretFields(self, dir, fields, i + 1,
            SecretCandidates(dir, fields[i], GetSourceNames(fields[i], ~self.case_sensitive), 1, acc))

\* SecretsSource.__call__(model); path is what secrets_dir names: nothing, a
\* file, or a directory with its entries (name -> file text or sub-directory).
SecretsSourceCall(self, path, fields) ==
    LET empty == [op |-> "secrets", outcome |-> "ok", secrets |-> EmptyDict, warnings |-> 0]
    IN IF self.secrets_dir = None THEN empty
       ELSE IF path.kind = "missing" THEN [empty EXCEPT !.warnings = 1]
       ELSE IF path.kind # "dir" THEN [empty EXCEPT !.outcome = "SettingsError"]
       ELSE LET r == SecretFields(self, path.entries, fields, 1, empty)
            IN IF r.outcome = "ok" THEN r ELSE [r EXCEPT !.secrets = EmptyDict]

SecretsCall ==
    /\ args.op = "secrets" /\ ret = NoRet
    /\ ret' = SecretsSourceCall(args.self, args.path, args.fields)
    /\ UNCHANGED <<sources, registry, handles, call, args, heap, instances>>

(***************************************************************************)
(* SpecSecrets: SecretsSource on drawn directories and fields.             *)
(***************************************************************************)
SecretNameOrder == << <<"t">>, <<"u">>, <<"T">> >>
FileOf(text) == [kind |-> "file", text |-> text]
SubDir == [kind |-> "dir", text |-> ""]
NoEntry == [kind |-> "absent", text |-> ""]

SecretEntries ==
    {SelectSeq([i \in 1..Len(SecretNameOrder) |-> [k |-> SecretNameOrder[i], v |-> es[i]]],
               LAMBDA it : it.v # NoEntry) :
        es \in {<<t, u, c>> :
            t \in {NoEntry, SubDir, FileOf(" one\n"), FileOf(" {\"h\":\"j\"}\n")},
            u \in {NoEntry, SubDir, FileOf("two \n"), FileOf("{\"p\":\"q\"}")},
            c \in {NoEntry, FileOf("oops")}}}

SecretPaths ==
    {[kind |-> "missing", entries |-> <<>>], [kind |-> "file", entries |-> <<>>]}
    \cup {[kind |-> "dir", entries |-> es] : es \in SecretEntries}

SecretFieldSpecs ==
    {[name |-> <<"t">>, alias |-> <<"t", "a">>, env |-> e, type |-> ty] :
        e \in {NoExtra, << <<"t">>, <<"u">> >>, << <<"u">>, <<"t">> >>, << <<"T">>, <<"u">> >>},
        ty \in {"plain", "complex"}}

SecretInputs ==
    {[op |-> "secrets", self |-> [secrets_dir |-> <<"s">>, case_sensitive |-> cs],
      path |-> pa, fields |-> <<f>>] :
        cs \in BOOLEAN, pa \in SecretPaths, f \in SecretFieldSpecs}
    \cup {[op |-> "secrets", self |-> [secrets_dir |-> None, case_sensitive |-> FALSE],
           path |-> [kind |-> "missing", entries |-> <<>>], fields |-> <<f>>] :
        f \in SecretFieldSpecs}

SecretsInit ==
    /\ RegistryInit
    /\ DefaultsInit
    /\ args \in SecretInputs
    /\ ret = NoRet

SpecSecrets == SecretsInit /\ [][SecretsCall]_vars

(***************************************************************************)
(* C8                                                                      *)
(***************************************************************************)
\* The candidates of the schema's field that are regular files, in
\* declaration order.
SecretNames == GetSourceNames(args.fields[1], ~args.self.case_sensitive)
SecretFiles ==
    SelectSeq(SecretNames, LAMBDA n : ItemGet(args.path.entries, n).found
                                      /\ ItemGet(args.path.entries, n).v.kind = "file")

\* C8: when several candidates of a field exist as regular files, the field's
\* value is the trimmed content of the first existing candidate's file.
C8_FirstSecretWins ==
    (args.op = "secrets" /\ ret.op = "secrets" /\ ret.outcome = "ok"
        /\ args.self.secrets_dir # None /\ args.path.kind = "dir"
        /\ args.fields[1].type = "plain" /\ Len(SecretFiles) >= 1) =>
            /\ args.fields[1].alias \in DOMAIN ret.secrets
            /\ ret.secrets[args.fields[1].alias]
                 = Str(StripText(ItemGet(args.path.entries, SecretFiles[1]).v.text))

(***************************************************************************)
(* IniFileSource.  The parsed file is what ConfigParser.read leaves: the   *)
(* DEFAULT section's items and the named sections' items, every key        *)
(* lower-cased by optionxform, section names as written.                   *)
(***************************************************************************)
DefaultSection == <<"D", "E", "F", "A", "U", "L", "T">>   \* parser.default_section

\* ConfigParser.read: optionxform lower-cases the keys.
ParserRead(file) ==
    [defaults |-> LowerKeys(file.defaults),
     sections |-> [i \in 1..Len(file.sections) |->
                      [k |-> file.sections[i].k, v |-> LowerKeys(file.sections[i].v)]]]

\* parser.sections(): the named sections, DEFAULT excluded.
ParserSections(parser) == {parser.sections[i].k : i \in 1..Len(parser.sections)}

\* parser.get(section, key, raw=True, fallback=None): the key, lower-cased by
\* optionxform, looked up in the section and then in DEFAULT; None for a
\* section that is neither in the file nor DEFAULT, or a key in neither.
ParserGet(parser, section, key) ==
    LET option == Lower(key)
        own == ItemGet(parser.sections, section)
        inherited == ItemGet(parser.defaults, option)
    IN IF ~own.found /\ section # DefaultSection THEN [found |-> FALSE, v |-> ""]
       ELSE IF own.found /\ ItemGet(own.v, option).found THEN ItemGet(own.v, option)
       ELSE inherited

\* The section and key a field is looked up under.
IniSection(self, field, ini_default_section) ==
    LET section == IF field.ini_section = None THEN ini_default_section ELSE field.ini_section
    IN IF ~self.case_sensitive THEN Lower(section) ELSE section

IniKey(self, field) ==
    LET key == IF field.ini = None THEN field.name ELSE field.ini
    IN IF ~self.case_sensitive THEN Lower(key) ELSE key

RECURSIVE IniFields(_, _, _, _, _, _)
IniFields(self, parser, ini_default_section, fields, i, result) ==
    IF i > Len(fields) THEN result
    ELSE LET got == ParserGet(parser, IniSection(self, fields[i], ini_default_section),
                              IniKey(self, fields[i]))
         IN IniFields(self, parser, ini_default_section, fields, i + 1,
                \* `if value := ...`: None and the empty string assign nothing
                IF got.found /\ got.v # ""
                THEN DictMerge(result, fields[i].alias :> Str(got.v)) ELSE result)

\* IniFileSource.__call__(model); path is what ini_file names.
IniFileSourceCall(self, path, fields) ==
    LET fail == [op |-> "ini", outcome |-> "SettingsError", result |-> EmptyDict]
        parser == ParserRead(path.file)
    IN IF self.ini_file = None THEN [op |-> "ini", outcome |-> "ok", result |-> EmptyDict]
       ELSE IF path.kind # "file" THEN fail
       ELSE IF self.ini_default_section # None
               /\ self.ini_default_section \notin ParserSections(parser) THEN fail
       ELSE [op |-> "ini", outcome |-> "ok",
             result |-> IniFields(self, parser,
                                  IF self.ini_default_section = None THEN DefaultSection
                                  ELSE self.ini_default_section,
                                  fields, 1, EmptyDict)]

IniCall ==
    /\ args.op = "ini" /\ ret = NoRet
    /\ ret' = IniFileSourceCall(args.self, args.path, args.fields)
    /\ UNCHANGED <<sources, registry, handles, call, args, heap, instances>>

(***************************************************************************)
(* SpecIni: IniFileSource on drawn files, settings and fields.             *)
(***************************************************************************)
Item(k, v) == [k |-> k, v |-> v]
Items(its) == SelectSeq(its, LAMBDA it : it.v # Absent)
SectionItems(secs) == SelectSeq(secs, LAMBDA sec : sec.v # <<>>)

\* Files with a DEFAULT section and the sections [Db] and [low], holding the
\* keys foo and Host.
IniFiles ==
    {[defaults |-> Items(<<Item(<<"f", "o", "o">>, df)>>),
      sections |-> SectionItems(<<
          Item(<<"D", "b">>, Items(<<Item(<<"H", "o", "s", "t">>, dh), Item(<<"f", "o", "o">>, dfo)>>)),
          Item(<<"l", "o", "w">>, Items(<<Item(<<"f", "o", "o">>, lf), Item(<<"k">>, "")>>)) >>)] :
        df \in {Absent, "bar"}, dh \in {Absent, "h1"}, dfo \in {Absent, "baz"},
        lf \in {Absent, "qux"}}

IniPaths ==
    {[kind |-> "missing", file |-> [defaults |-> <<>>, sections |-> <<>>]],
     [kind |-> "dir", file |-> [defaults |-> <<>>, sections |-> <<>>]]}
    \cup {[kind |-> "file", file |-> f] : f \in IniFiles}

IniSelves ==
    {[ini_file |-> <<"c">>, ini_default_section |-> ds, case_sensitive |-> cs] :
        ds \in {None, <<"D", "b">>, <<"l", "o", "w">>, <<"d", "b">>, DefaultSection},
        cs \in BOOLEAN}
    \cup {[ini_file |-> None, ini_default_section |-> None, case_sensitive |-> FALSE]}

IniFieldSpecs ==
    {[name |-> n, alias |-> n \o <<"_">>, ini_section |-> sec, ini |-> key] :
        n \in { <<"f", "o", "o">>, <<"h", "o", "s", "t">>, <<"k">> },
        sec \in {None, <<"D", "b">>, <<"l", "o", "w">>},
        key \in {None, <<"H", "o", "s", "t">>}}

IniInputs ==
    {[op |-> "ini", self |-> sf, path |-> pa, fields |-> <<f>>] :
        sf \in IniSelves, pa \in IniPaths, f \in IniFieldSpecs}

IniInit ==
    /\ RegistryInit
    /\ DefaultsInit
    /\ args \in IniInputs
    /\ ret = NoRet

SpecIni == IniInit /\ [][IniCall]_vars

(***************************************************************************)
(* C9                                                                      *)
(***************************************************************************)
\* The section and key the claim names for the schema's field, and the
\* non-empty value the file holds for them: in that section as written when
\* the source is case-sensitive, in a section and under a key equal after
\* case-folding otherwise (DEFAULT being the file's implicit section).
IniWantedSection ==
    IF args.fields[1].ini_section # None THEN args.fields[1].ini_section
    ELSE IF args.self.ini_default_section # None THEN args.self.ini_default_section
    ELSE DefaultSection
IniWantedKey == IF args.fields[1].ini # None THEN args.fields[1].ini ELSE args.fields[1].name
IniFileSections ==
    <<Item(DefaultSection, args.path.file.defaults)>> \o args.path.file.sections
IniHeld ==
    UNION {{IniFileSections[j].v[i].v : i \in 1..Len(IniFileSections[j].v)} :
                j \in 1..Len(IniFileSections)} \ {""}
IniValuesAt(section, key, fold) ==
    {v \in IniHeld :
        \E j \in 1..Len(IniFileSections) :
            /\ IF fold THEN Lower(IniFileSections[j].k) = Lower(section)
               ELSE IniFileSections[j].k = section
            /\ \E i \in 1..Len(IniFileSections[j].v) :
                  /\ Lower(IniFileSections[j].v[i].k) = Lower(key)
                  /\ IniFileSections[j].v[i].v = v}

\* C9: a field whose (section, key) pair has a value in the file gets that raw
\* string under its alias; a source that is not case-sensitive matches section
\* and key after case-folding, so a key of the implicit DEFAULT section or of a
\* mixed-case section is found.
C9_IniValueFound ==
    (args.op = "ini" /\ ret.op = "ini" /\ ret.outcome = "ok" /\ args.self.ini_file # None) =>
        \A v \in IniValuesAt(IniWantedSection, IniWantedKey, ~args.self.case_sensitive) :
            /\ args.fields[1].alias \in DOMAIN ret.result
            /\ ret.result[args.fields[1].alias] = Str(v)

(***************************************************************************)
(* The delimited value parsers: DelimitedList.validate and Params.validate *)
(* on a string, as a sequence of characters.                               *)
(***************************************************************************)
Count(v, c) == Cardinality({i \in 1..Len(v) : v[i] = c})
FirstIndex(v, c) == CHOOSE i \in 1..Len(v) : v[i] = c /\ \A j \in 1..(i - 1) : v[j] # c
Chars(v) == {v[i] : i \in 1..Len(v)}

\* Counter(v).most_common(): the distinct characters by falling count; sorted
\* is stable, so equal counts stay in the order of first occurrence in v.
MostCommonRank(v, c) ==
    1 + Cardinality({e \in Chars(v) :
            \/ Count(v, e) > Count(v, c)
            \/ Count(v, e) = Count(v, c) /\ FirstIndex(v, e) < FirstIndex(v, c)})
MostCommon(v) ==
    [r \in 1..Cardinality(Chars(v)) |-> CHOOSE c \in Chars(v) : MostCommonRank(v, c) = r]

InOrder(order, c) == \E i \in 1..Len(order) : order[i] = c

\* next((k for k, _ in Counter(v).most_common() if k in order), default)
RECURSIVE FirstIn(_, _, _, _)
FirstIn(common, order, default, i) ==
    IF i > Len(common) THEN default
    ELSE IF InOrder(order, common[i]) THEN common[i]
    ELSE FirstIn(common, order, default, i + 1)

DetectSeparator(v, order, default) == FirstIn(MostCommon(v), order, default, 1)

ListOrder == <<",", "\n", ";", "&">>      \* DelimitedList.validate: order
ParamsOrder == <<"&", ",", ";", "\n">>    \* Params.validate: order

\* str.strip(): the blanks at both ends removed.
Blank(c) == c \in {" ", "\n"}
RECURSIVE StripLeft(_)
StripLeft(x) == IF x # <<>> /\ Blank(Head(x)) THEN StripLeft(Tail(x)) ELSE x
RECURSIVE StripRight(_)
StripRight(x) ==
    IF x # <<>> /\ Blank(x[Len(x)]) THEN StripRight(SubSeq(x, 1, Len(x) - 1)) ELSE x
Strip(x) == StripRight(StripLeft(x))

\* DelimitedList.validate(v) for a string v
DelimitedListValidate(v) ==
    LET separator == DetectSeparator(v, ListOrder, ",")
    IN IF v = <<>> THEN [op |-> "list", delimiter |-> ",", items |-> <<>>]
       ELSE LET parts == Split(v, <<separator>>)
            IN [op |-> "list", delimiter |-> separator,
                items |-> [i \in 1..Len(parts) |-> Strip(parts[i])]]

\* urllib.parse.parse_qs(v, separator=separator) on the alphabet of the model
\* (no escapes): the fields with an "=" and a non-empty value, the values of
\* a repeated name collected in order.
RECURSIVE ParseQs(_, _, _)
ParseQs(pairs, i, params) ==
    IF i > Len(pairs) THEN params
    ELSE LET nv == Split(pairs[i], <<"=">>)
             name == nv[1]
             value == SubSeq(pairs[i], Len(name) + 2, Len(pairs[i]))
         IN IF Len(nv) < 2 \/ value = <<>> THEN ParseQs(pairs, i + 1, params)
            ELSE ParseQs(pairs, i + 1,
                    DictMerge(params, name :> (IF name \in DOMAIN params
                                               THEN Append(params[name], value)
                                               ELSE <<value>>)))

\* Params.validate(v) for a string v
ParamsValidate(v) ==
    IF v = <<>> THEN [op |-> "params", delimiter |-> "&", items |-> EmptyDict]
    ELSE LET separator == DetectSeparator(v, ParamsOrder, "&")
         IN [op |-> "params", delimiter |-> separator,
             items |-> ParseQs(Split(v, <<separator>>), 1, EmptyDict)]

ValidateList ==
    /\ args.op = "validate" /\ ret = NoRet
    /\ ret' = DelimitedListValidate(args.v)
    /\ UNCHANGED <<sources, registry, handles, call, args, heap, instances>>

ValidateParams ==
    /\ args.op = "validate" /\ ret = NoRet
    /\ ret' = ParamsValidate(args.v)
    /\ UNCHANGED <<sources, registry, handles, call, args, heap, instances>>

(***************************************************************************)
(* SpecValidate: the parsers on every string up to MaxLen characters.      *)
(***************************************************************************)
MaxLen == 4
Alphabet == {",", "\n", ";", "&", "=", "a", " "}

ValidateInit ==
    /\ RegistryInit
    /\ DefaultsInit
    /\ args \in {[op |-> "validate", v |-> v] : v \in SeqsUpTo(Alphabet, MaxLen)}
    /\ ret = NoRet

ValidateNext == ValidateList \/ ValidateParams

SpecValidate == ValidateInit /\ [][ValidateNext]_vars

(***************************************************************************)
(* C10                                                                     *)
(***************************************************************************)
\* The delimiter the claim names: among the candidates that occur most often
\* in v, the one earliest in the priority order; the first of the order when
\* none occurs.
Candidates(order) == {order[i] : i \in 1..Len(order)}
Priority(order, c) == CHOOSE i \in 1..Len(order) : order[i] = c
PriorityChoice(v, order) ==
    LET present == Candidates(order) \cap Chars(v)
        top == {c \in present : \A e \in present : Count(v, e) <= Count(v, c)}
    IN IF present = {} THEN order[1]
       ELSE CHOOSE c \in top : \A e \in top : Priority(order, c) <= Priority(order, e)

\* C10: the delimiter chosen for a string is the candidate that occurs most
\* often, the earlier one in the type's priority order when two occur equally
\* often, and the first of the order when none occurs.
C10_TieByPriority ==
    /\ (args.op = "validate" /\ ret.op = "list") => ret.delimiter = PriorityChoice(args.v, ListOrder)
    /\ (args.op = "validate" /\ ret.op = "params") => ret.delimiter = PriorityChoice(args.v, ParamsOrder)

(***************************************************************************)
(* C11                                                                     *)
(***************************************************************************)
\* The step is a register or configure call that raised.
FailedRegistryCall ==
    /\ call'.op \in {"register", "configure"}
    /\ call'.outcome # "ok"

\* C11: a register or configure call that raises leaves the base source
\* table and every environment table as they were before the call; a failed
\* register never leaves its name registered.
C11_FailedCallLeavesRegistry ==
    [][FailedRegistryCall => (sources' = sources /\ registry' = registry)]_vars

(***************************************************************************)
(* DelimitedList and Params instances: construction and element mutation.  *)
(***************************************************************************)
\* A list or dict object not yet referred to: each construction makes one at most.
FreshAddress == Len(instances) + 2

\* DelimitedList.__init__(value, delimiter=...): a list argument is kept as
\* it is (self._list = value); with no argument that list is the default [].
DelimitedListInit(ref, delimiter) == [kind |-> "list", ref |-> ref, delimiter |-> delimiter]

\* Params.__init__(value, separator=...): self._params = value; with no
\* argument that dict is the default {}.
ParamsInit(ref, separator) == [kind |-> "params", ref |-> ref, delimiter |-> separator]

\* DelimitedList() and DelimitedList.validate(v) for a string v: cls() for
\* the empty string, else cls of the list the comprehension builds.
NewDelimitedList(v, validated) ==
    /\ Len(instances) < MaxInstances
    /\ LET r == DelimitedListValidate(v)
       IN IF (~validated) \/ v = <<>>
          THEN /\ instances' = Append(instances, DelimitedListInit(DefaultList, ","))
               /\ heap' = heap
          ELSE /\ instances' = Append(instances, DelimitedListInit(FreshAddress, r.delimiter))
               /\ heap' = DictMerge(heap, FreshAddress :> r.items)
    /\ args' = [op |-> "new", kind |-> "list", v |-> v, validated |-> validated]
    /\ ret' = [op |-> "ok"]
    /\ UNCHANGED <<sources, registry, handles, call>>

\* Params() and Params.validate(v) for a string v: cls() when v is empty,
\* else cls of the dict parse_qs returns.
NewParams(v, validated) ==
    /\ Len(instances) < MaxInstances
    /\ LET r == ParamsValidate(v)
       IN IF (~validated) \/ v = <<>>
          THEN /\ instances' = Append(instances, ParamsInit(DefaultDict, "&"))
               /\ heap' = heap
          ELSE /\ instances' = Append(instances, ParamsInit(FreshAddress, r.delimiter))
               /\ heap' = DictMerge(heap, FreshAddress :> r.items)
    /\ args' = [op |-> "new", kind |-> "params", v |-> v, validated |-> validated]
    /\ ret' = [op |-> "ok"]
    /\ UNCHANGED <<sources, registry, handles, call>>

\* The outcome of a mutation of instance target: the heap with the object
\* it refers to replaced, or the error with the heap as it was.
Mutated(op, target, contents) ==
    /\ heap' = [heap EXCEPT ![instances[target].ref] = contents]
    /\ args' = [op |-> op, target |-> target]
    /\ ret' = [op |-> "ok"]
    /\ UNCHANGED <<sources, registry, handles, call, instances>>

Raised(op, target, error) ==
    /\ args' = [op |-> op, target |-> target]
    /\ ret' = [op |-> error]
    /\ UNCHANGED <<sources, registry, handles, call, heap, instances>>

\* DelimitedList.__setitem__(index, item): self._list[index] = item
ListSetItem(target, index, item) ==
    /\ target \in 1..Len(instances) /\ instances[target].kind = "list"
    /\ LET l == heap[instances[target].ref]
       IN IF index >= Len(l) THEN Raised("setitem", target, "IndexError")
          ELSE Mutated("setitem", target, [l EXCEPT ![index + 1] = item])

\* DelimitedList.__delitem__(index): del self._list[index]
ListDelItem(target, index) ==
    /\ target \in 1..Len(instances) /\ instances[target].kind = "list"
    /\ LET l == heap[instances[target].ref]
       IN IF index >= Len(l) THEN Raised("delitem", target, "IndexError")
          ELSE Mutated("delitem", target, SubSeq(l, 1, index) \o SubSeq(l, index + 2, Len(l)))

\* DelimitedList.insert(index, value): list.insert, an index past the end appends.
ListInsert(target, index, value) ==
    /\ target \in 1..Len(instances) /\ instances[target].kind = "list"
    /\ LET l == heap[instances[target].ref]
           at == IF index > Len(l) THEN Len(l) ELSE index
       IN /\ Len(l) < MaxItems
          /\ Mutated("insert", target, SubSeq(l, 1, at) \o <<value>> \o SubSeq(l, at + 1, Len(l)))

\* Params.__setitem__(key, item): self._params[key] = item
ParamsSetItem(target, key, item) ==
    /\ target \in 1..Len(instances) /\ instances[target].kind = "params"
    /\ LET d == heap[instances[target].ref]
       IN /\ (key \in DOMAIN d \/ Cardinality(DOMAIN d) < MaxItems)
          /\ Mutated("setitem", target, DictMerge(d, key :> item))

\* Params.__delitem__(key): del self._params[key]
ParamsDelItem(target, key) ==
    /\ target \in 1..Len(instances) /\ instances[target].kind = "params"
    /\ LET d == heap[instances[target].ref]
       IN IF key \notin DOMAIN d THEN Raised("delitem", target, "KeyError")
          ELSE Mutated("delitem", target, [k \in DOMAIN d \ {key} |-> d[k]])

(***************************************************************************)
(* SpecInstances: instances are created and mutated in any order.          *)
(***************************************************************************)
ListTexts == {<<>>, <<"a", ",", "b">>}
ParamsTexts == {<<>>, <<"a", "=", "b">>}
ListItems == {<<"x">>, <<"y">>}
ParamsKeys == {<<"a">>, <<"k">>}
ParamsItems == {<< <<"x">> >>, << <<"y">> >>}

InstancesInit ==
    /\ RegistryInit
    /\ DefaultsInit
    /\ args = NoArgs
    /\ ret = NoRet

InstancesNext ==
    \/ \E v \in ListTexts, validated \in BOOLEAN : NewDelimitedList(v, validated)
    \/ \E v \in ParamsTexts, validated \in BOOLEAN : NewParams(v, validated)
    \/ \E t \in 1..MaxInstances, i \in 0..MaxItems, x \in ListItems : ListSetItem(t, i, x)
    \/ \E t \in 1..MaxInstances, i \in 0..MaxItems : ListDelItem(t, i)
    \/ \E t \in 1..MaxInstances, i \in 0..MaxItems, x \in ListItems : ListInsert(t, i, x)
    \/ \E t \in 1..MaxInstances, k \in ParamsKeys, x \in ParamsItems : ParamsSetItem(t, k, x)
    \/ \E t \in 1..MaxInstances, k \in ParamsKeys : ParamsDelItem(t, k)

SpecInstances == InstancesInit /\ [][InstancesNext]_vars

(***************************************************************************)
(* C12                                                                     *)
(***************************************************************************)
\* The step is an element mutation (item set, item delete, insert) of one instance.
ElementMutation == args'.op \in {"setitem", "delitem", "insert"} /\ instances' = instances

\* C12: an element mutation of one DelimitedList or Params instance leaves
\* the contents of every other instance unchanged; instances made with no
\* arguments or by validate on empty input share no list or mapping.
C12_OtherInstancesUnchanged ==
    [][ElementMutation =>
          \A j \in 1..Len(instances) :
              j # args'.target => heap'[instances[j].ref] = heap[instances[j].ref]]_vars

====
